---- MODULE Spec2Model ----
(***************************************************************************)
(* Model of the long-text splitter / result joiner and of the task         *)
(* construction (resource files, predictor type, inference model) of the   *)
(* Taskflow base class (paddlenlp/taskflow/task.py) and of the SQuAD       *)
(* training-label                                                          *)
(* construction and validation-feature masking                             *)
(* (examples/language_model/canine/run_squad.py).                          *)
(*                                                                         *)
(* Python conventions kept by the model:                                   *)
(*   - Python indices are 0-based; a TLA+ sequence s models a Python list  *)
(*     l with l[i] = s[i + 1].  Chunk indices, mapping keys, token indices *)
(*     and labels are stored as the 0-based numbers of the program.        *)
(*   - a Python str is a sequence of one-character strings.                *)
(*   - a Python dict is a sequence of entries in insertion order.          *)
(***************************************************************************)
EXTENDS Integers, Sequences, FiniteSets, TLC

(***************************************************************************)
(* Bounds of the model.                                                    *)
(***************************************************************************)
MaxTexts == 2
MaxTextLen == 3
MaxCutLen == 2
MaxChar == 3
MaxWindows == 1
MaxExamples == 2
MaxFeatures == 2
MaxChunks == 2
MaxItems == 1

\* The characters of the input texts; SentEnd is a sentence terminator.
SentEnd == "?"
Chars == {"a", SentEnd}

VARIABLES
    \* ---- Task._auto_splitter ----
    input_texts,        \* argument: list of str
    max_text_len,       \* argument: cutting length
    split_sentence,     \* argument: sentence-level split
    input_mapping,      \* dict cnt_org -> list of chunk indices (insertion order)
    short_input_texts,  \* list of chunks
    cnt_org,
    cnt_short,
    sens,               \* units of the current text still to process
    sen,                \* the unit of the last inner-loop iteration
    temp_text_list,     \* slices of the last over-long unit
    temp_text_id,       \* chunk indices of the last over-long unit
    \* ---- Task._auto_joiner ----
    short_results,      \* argument: list of chunk results (objects, mutable)
    results_at_call,    \* SpecJoin: the content of short_results when the joiner was called
    is_dict,            \* argument
    concat_results,     \* list of references; 0 is elem_type, j > 0 is short_results[j - 1]
    join_pos,           \* number of mapping entries already joined
    \* ---- prepare_train_features ----
    input_ids,          \* tokenized_examples["input_ids"][i] of the last window
    sequence_ids,       \* tokenized_examples["token_type_ids"][i] of the last window
    offsets,            \* offset_mapping[i] of the last window
    answers,            \* examples["answers"][sample_index] of the last window
    win_index,          \* `i`: index of the last window entered, -1 before the first
    start_positions,    \* tokenized_examples["start_positions"]
    end_positions,      \* tokenized_examples["end_positions"]
    \* ---- prepare_validation_features ----
    examples_id,        \* examples["id"]
    sample_mapping,     \* tokenized_examples.pop("overflow_to_sample")
    token_type_ids,     \* tokenized_examples["token_type_ids"][i] of the last window
    raw_offsets,        \* offset_mapping[i] of the last window as tokenized
    offset_mapping,     \* offset_mapping[i] of the last window after the loop body
    example_id,         \* tokenized_examples["example_id"]
    feat_index,         \* `i`: index of the last window entered, -1 before the first
    \* ---- Task: construction of a task object ----
    task,               \* the task object and what its constructor finds and calls
    \* ---- control ----
    pc,
    err

splitVars == <<input_texts, max_text_len, split_sentence, input_mapping,
               short_input_texts, cnt_org, cnt_short, sens, sen,
               temp_text_list, temp_text_id>>
joinVars == <<short_results, results_at_call, is_dict, concat_results, join_pos>>
trainVars == <<input_ids, sequence_ids, offsets, answers, win_index, start_positions, end_positions>>
validVars == <<examples_id, sample_mapping, token_type_ids, raw_offsets,
               offset_mapping, example_id, feat_index>>
taskVars == <<task>>

(***************************************************************************)
(* Generic helpers.                                                        *)
(***************************************************************************)
\* All sequences over S of length at most n.
SeqsUpTo(S, n) == UNION {[1..k -> S] : k \in 0..n}

RECURSIVE Flatten(_)
\* Concatenation of a sequence of sequences.
Flatten(ss) == IF ss = <<>> THEN <<>> ELSE Head(ss) \o Flatten(Tail(ss))

\* Python range(n) as a list.
Range(n) == [i \in 1..n |-> i - 1]

(***************************************************************************)
(* Python dict in insertion order: a sequence of [k, vs] entries.          *)
(***************************************************************************)
Keys(m) == {m[i].k : i \in 1..Len(m)}

Get(m, key) == (CHOOSE i \in 1..Len(m) : m[i].k = key)

\* m[key] = vs for a new key, m[key].extend(vs) for an existing one.
AddToMapping(m, key, vs) ==
    IF key \notin Keys(m)
    THEN Append(m, [k |-> key, vs |-> vs])
    ELSE [m EXCEPT ![Get(m, key)].vs = @ \o vs]

(***************************************************************************)
(* Task._auto_splitter                                                     *)
(***************************************************************************)
RECURSIVE CutAfterTerminators(_, _)
\* The units of `rest`, `cur` being the unit under construction.
CutAfterTerminators(cur, rest) ==
    IF rest = <<>> THEN <<cur>>
    ELSE IF Head(rest) = SentEnd /\ Tail(rest) # <<>>
         THEN <<Append(cur, Head(rest))>> \o CutAfterTerminators(<<>>, Tail(rest))
         ELSE CutAfterTerminators(Append(cur, Head(rest)), Tail(rest))

\* utils.cut_chinese_sent: partition of a text into sentence units; a unit
\* ends after a sentence terminator, a text without terminator is one unit.
cut_chinese_sent(text) == CutAfterTerminators(<<>>, text)

\* Mutant of CeilDiv: floor instead of ceiling.
CeilDivFloor(lens, n) == lens \div n

\* math.ceil(lens / max_text_len)
CeilDiv(lens, n) == (lens + n - 1) \div n

\* Mutant of Slice: the slice starts one character late.
SliceLate(s, i, n) == SubSeq(s, i + 2, IF i + n < Len(s) THEN i + n ELSE Len(s))

\* sen[i:i + n], i a 0-based offset; Python clips the slice at the end.
Slice(s, i, n) == SubSeq(s, i + 1, IF i + n < Len(s) THEN i + n ELSE Len(s))

\* Mutant of RangeStep: lens // n + 1 windows, one too many when n divides lens.
RangeStepExtra(lens, n) == [j \in 1..((lens \div n) + 1) |-> (j - 1) * n]

\* range(0, lens, n) as the list of its values.
RangeStep(lens, n) == [j \in 1..((lens + n - 1) \div n) |-> (j - 1) * n]

\* [sen[i:i + max_text_len] for i in range(0, lens, max_text_len)]
TempTextList(s, n) ==
    LET starts == RangeStep(Len(s), n)
    IN  [j \in 1..Len(starts) |-> Slice(s, starts[j], n)]

\* [short_idx + i for i in range(cnt_short - short_idx)]
TempTextId(short_idx, new_cnt_short) ==
    [i \in 1..(new_cnt_short - short_idx) |-> short_idx + (i - 1)]

\* Mutant of Sens: the flag is inverted.
SensInverted(text) == IF split_sentence THEN <<text>> ELSE cut_chinese_sent(text)

\* sens = [text] or cut_chinese_sent(text)
Sens(text) == IF split_sentence THEN cut_chinese_sent(text) ELSE <<text>>

SplitInit ==
    /\ input_texts \in SeqsUpTo(SeqsUpTo(Chars, MaxTextLen), MaxTexts)
    /\ max_text_len \in 1..MaxCutLen
    /\ split_sentence \in BOOLEAN
    /\ input_mapping = <<>>
    /\ short_input_texts = <<>>
    /\ cnt_org = 0
    /\ cnt_short = 0
    /\ sens = <<>>
    /\ sen = <<>>
    /\ temp_text_list = <<>>
    /\ temp_text_id = <<>>

\* `for text in input_texts:` entered for the next text.
SplitterNextText ==
    /\ pc = "split_for_text"
    /\ cnt_org < Len(input_texts)
    /\ sens' = Sens(input_texts[cnt_org + 1])
    /\ pc' = "split_for_sen"
    /\ UNCHANGED <<input_texts, max_text_len, split_sentence, input_mapping,
                   short_input_texts, cnt_org, cnt_short, sen,
                   temp_text_list, temp_text_id, err>>
    /\ UNCHANGED <<joinVars, taskVars, trainVars, validVars>>

\* One iteration of `for sen in sens:`.
SplitterSen ==
    /\ pc = "split_for_sen"
    /\ sens # <<>>
    /\ LET s == Head(sens)
           lens == Len(s)
       IN  /\ sen' = s
           /\ sens' = Tail(sens)
           /\ IF lens <= max_text_len
              THEN /\ short_input_texts' = Append(short_input_texts, s)
                   /\ input_mapping' = AddToMapping(input_mapping, cnt_org, <<cnt_short>>)
                   /\ cnt_short' = cnt_short + 1
                   /\ UNCHANGED <<temp_text_list, temp_text_id>>
              ELSE /\ temp_text_list' = TempTextList(s, max_text_len)
                   /\ short_input_texts' = short_input_texts \o temp_text_list'
                   /\ cnt_short' = cnt_short + CeilDiv(lens, max_text_len)
                   /\ temp_text_id' = TempTextId(cnt_short, cnt_short')
                   /\ input_mapping' = AddToMapping(input_mapping, cnt_org, temp_text_id')
    /\ UNCHANGED <<input_texts, max_text_len, split_sentence, cnt_org, pc, err>>
    /\ UNCHANGED <<joinVars, taskVars, trainVars, validVars>>

\* End of the inner loop: `cnt_org += 1`.
SplitterEndText ==
    /\ pc = "split_for_sen"
    /\ sens = <<>>
    /\ cnt_org' = cnt_org + 1
    /\ pc' = "split_for_text"
    /\ UNCHANGED <<input_texts, max_text_len, split_sentence, input_mapping,
                   short_input_texts, cnt_short, sens, sen,
                   temp_text_list, temp_text_id, err>>
    /\ UNCHANGED <<joinVars, taskVars, trainVars, validVars>>

\* `return short_input_texts, input_mapping`
SplitterReturn ==
    /\ pc = "split_for_text"
    /\ cnt_org = Len(input_texts)
    /\ pc' = "split_done"
    /\ UNCHANGED <<splitVars, taskVars, joinVars, trainVars, validVars, err>>

(***************************************************************************)
(* Task._auto_joiner                                                       *)
(*                                                                         *)
(* A chunk result is an object [type, val]: a str or a list, val being its *)
(* characters or items, or a dict, val being its entries [k, v] in         *)
(* insertion order with v a str or list object.  single_results is a       *)
(* reference: 0 is elem_type, j > 0 is the object short_results[j - 1],    *)
(* which `extend` and the item assignment of the dict branch mutate in     *)
(* place.                                                                  *)
(***************************************************************************)
StrObj(s) == [type |-> "str", val |-> s]

ListObj(s) == [type |-> "list", val |-> s]

\* elem_type = {} if is_dict else []
ElemType == IF is_dict THEN [type |-> "dict", val |-> <<>>] ELSE ListObj(<<>>)

\* The object a reference denotes.
Deref(objs, ref) == IF ref = 0 THEN ElemType ELSE objs[ref]

DictObj(es) == [type |-> "dict", val |-> es]

\* What iterating an object yields: characters, items, or the keys of a dict.
Iter(obj) == IF obj.type = "dict" THEN [i \in 1..Len(obj.val) |-> obj.val[i].k] ELSE obj.val

\* x followed by y, the wrong way round.
ConcatSwapped(x, y) == y \o x

\* `x += y` on str values, `x.extend(y)` on lists: x followed by y.
Concat(x, y) == x \o y

\* single_results.extend(short_results[v]) on a list object.
Extend(objs, ref, other) == [objs EXCEPT ![ref].val = Concat(@, Iter(other))]

\* The position of key sk among the entries of a dict object, 0 if absent.
KeyPos(obj, sk) ==
    IF \E i \in 1..Len(obj.val) : obj.val[i].k = sk
    THEN CHOOSE i \in 1..Len(obj.val) : obj.val[i].k = sk
    ELSE 0

RECURSIVE JoinKeys(_, _, _, _)
\* `for sk in single_results.keys():` from the idx-th key of the dict
\* objs[ref], with short_results[v] the chunk result being added.
JoinKeys(idx, ref, objs, v) ==
    IF idx > Len(objs[ref].val) THEN [objs |-> objs, err |-> "none"]
    ELSE LET mine == objs[ref].val[idx]
             other == objs[v + 1]
         IN  IF other.type # "dict"
             THEN \* short_results[v][sk] with a str key on a str or a list
                  [objs |-> objs, err |-> "TypeError"]
             ELSE IF KeyPos(other, mine.k) = 0
             THEN [objs |-> objs, err |-> "KeyError"]
             ELSE LET theirs == other.val[KeyPos(other, mine.k)].v
                  IN  IF mine.v.type = "str" /\ theirs.type # "str"
                      THEN \* str += list
                           [objs |-> objs, err |-> "TypeError"]
                      ELSE JoinKeys(idx + 1, ref,
                                    [objs EXCEPT ![ref].val[idx].v.val = Concat(@, Iter(theirs))],
                                    v)

RECURSIVE JoinVs(_, _, _)
\* The inner loop `for v in vs:` from reference `ref` and objects `objs`.
JoinVs(vs, ref, objs) ==
    IF vs = <<>> THEN [ref |-> ref, objs |-> objs, err |-> "none"]
    ELSE LET v == Head(vs)
             single == Deref(objs, ref)
         IN  IF v + 1 > Len(objs)
             THEN [ref |-> ref, objs |-> objs, err |-> "IndexError"]
             ELSE IF Len(single.val) = 0
             THEN JoinVs(Tail(vs), v + 1, objs)
             ELSE IF ~is_dict
             THEN IF single.type = "list"
                  THEN JoinVs(Tail(vs), ref, Extend(objs, ref, objs[v + 1]))
                  ELSE [ref |-> ref, objs |-> objs, err |-> "AttributeError"]
             ELSE IF single.type = "dict"
             THEN LET r == JoinKeys(1, ref, objs, v)
                  IN  IF r.err = "none"
                      THEN JoinVs(Tail(vs), ref, r.objs)
                      ELSE [ref |-> ref, objs |-> r.objs, err |-> r.err]
             ELSE \* single_results.keys() on a str or a list
                  [ref |-> ref, objs |-> objs, err |-> "AttributeError"]

\* The chunk results handed to the joiner: the chunks themselves (List[str])
\* or, per chunk, the list of its per-character results (List[List[str]]).
ChunkResults(kind) ==
    [j \in 1..Len(short_input_texts) |->
        IF kind = "str" THEN StrObj(short_input_texts[j])
                        ELSE ListObj(short_input_texts[j])]

JoinInit ==
    /\ short_results = <<>>
    /\ results_at_call = <<>>
    /\ is_dict = FALSE
    /\ concat_results = <<>>
    /\ join_pos = 0

\* Call of _auto_joiner(short_results, input_mapping) on str or list chunk
\* results, is_dict at its default False: lines 333-334.  The calls with
\* is_dict = True are those of SpecJoin.
JoinerCall ==
    /\ pc = "split_done"
    /\ \E kind \in {"str", "list"} : short_results' = ChunkResults(kind)
    /\ is_dict' = FALSE
    /\ concat_results' = <<>>
    /\ join_pos' = 0
    /\ pc' = "join_for"
    /\ UNCHANGED <<results_at_call, splitVars, taskVars, trainVars, validVars, err>>

\* One iteration of `for k, vs in input_mapping.items():`.
JoinerEntry ==
    /\ pc = "join_for"
    /\ join_pos < Len(input_mapping)
    /\ LET r == JoinVs(input_mapping[join_pos + 1].vs, 0, short_results)
       IN  /\ short_results' = r.objs
           /\ IF r.err = "none"
              THEN /\ concat_results' = Append(concat_results, r.ref)
                   /\ join_pos' = join_pos + 1
                   /\ UNCHANGED <<pc, err>>
              ELSE /\ pc' = "error"
                   /\ err' = r.err
                   /\ UNCHANGED <<concat_results, join_pos>>
    /\ UNCHANGED <<results_at_call, is_dict, splitVars, taskVars, trainVars, validVars>>

\* `return concat_results`
JoinerReturn ==
    /\ pc = "join_for"
    /\ join_pos = Len(input_mapping)
    /\ pc' = "join_done"
    /\ UNCHANGED <<splitVars, taskVars, joinVars, trainVars, validVars, err>>

\* The list _auto_joiner returns, by value.
JoinerResults == [i \in 1..Len(concat_results) |-> Deref(short_results, concat_results[i])]

(***************************************************************************)
(* prepare_train_features (run_squad.py)                                   *)
(*                                                                         *)
(* The tokenizer is external.  A window it produces is                     *)
(*   [CLS] question [SEP] context ([SEP]) (padding)                        *)
(* with segment indicator 0 up to the first separator, 1 on the context    *)
(* and on the separator closing it, 0 on the padding; special tokens carry *)
(* the offset pair (0, 0), the other tokens increasing, non-overlapping    *)
(* character intervals.  has_cls = FALSE gives the malformed window that   *)
(* lacks the marker token.  The windows of one call belong to one example, *)
(* whose answers are drawn when the call starts.                           *)
(***************************************************************************)
\* tokenizer.cls_token_id
cls_token_id == "CLS"

SpecialOffset == <<0, 0>>

\* Character intervals (start, end) of non-special tokens.
Intervals == {<<s, e>> : s \in 0..MaxChar, e \in 1..MaxChar} \cap
             {p \in (0..MaxChar) \X (0..MaxChar) : p[1] < p[2]}

\* n tokens with strictly increasing, non-overlapping offsets.
Chains(n) == {c \in [1..n -> Intervals] : \A i \in 1..(n - 1) : c[i][2] <= c[i + 1][1]}

Repeat(x, n) == [i \in 1..n |-> x]

\* The window shapes: with or without the marker token, the separator
\* closing the context, a padding token.  The question is one character.
Shapes == [has_cls : BOOLEAN, closing : BOOLEAN, has_pad : BOOLEAN]

Opt(flag, x) == IF flag THEN <<x>> ELSE <<>>

\* The window of a shape whose context tokens have the offsets c.
Window(sh, c) ==
    [input_ids |-> <<IF sh.has_cls THEN cls_token_id ELSE "tok">>
                   \o <<"tok", "SEP">>
                   \o Repeat("tok", Len(c))
                   \o Opt(sh.closing, "SEP") \o Opt(sh.has_pad, "PAD"),
     sequence_ids |-> <<0, 0, 0>>
                      \o Repeat(1, Len(c))
                      \o Opt(sh.closing, 1) \o Opt(sh.has_pad, 0),
     offsets |-> <<SpecialOffset, <<0, 1>>, SpecialOffset>>
                 \o c
                 \o Opt(sh.closing, SpecialOffset) \o Opt(sh.has_pad, SpecialOffset)]

\* At most MaxChar non-empty tokens fit MaxChar characters.
Windows == {Window(sh, c) : sh \in Shapes, c \in UNION {Chains(n) : n \in 0..MaxChar}}

\* examples["answers"][k]: no answer, or one answer text at answer_start.
NoAnswers == [answer_start |-> <<>>, text |-> <<>>]

AnswerSet ==
    {NoAnswers} \cup
    {[answer_start |-> <<s>>, text |-> <<Repeat("x", n)>>] :
        s \in 0..MaxChar, n \in 0..MaxChar}

\* Python subscription l[i]: a negative index counts from the end.
InRange(l, i) == -Len(l) <= i /\ i < Len(l)

At(l, i) == IF i >= 0 THEN l[i + 1] ELSE l[Len(l) + i + 1]

\* Mutant of ClsIndex: the 1-based position.
ClsIndexOneBased(ids) ==
    IF \E k \in 1..Len(ids) : ids[k] = cls_token_id
    THEN CHOOSE k \in 1..Len(ids) : ids[k] = cls_token_id
    ELSE -1

\* Mutant of ClsIndex: index 0 when the marker is absent.
ClsIndexDefault(ids) ==
    IF \E k \in 1..Len(ids) : ids[k] = cls_token_id
    THEN (CHOOSE k \in 1..Len(ids) : ids[k] = cls_token_id) - 1
    ELSE 0

\* input_ids.index(tokenizer.cls_token_id); -1 stands for ValueError.
ClsIndex(ids) ==
    IF \E i \in 1..Len(ids) : ids[i] = cls_token_id
    THEN (CHOOSE i \in 1..Len(ids) :
            /\ ids[i] = cls_token_id
            /\ \A j \in 1..(i - 1) : ids[j] # cls_token_id) - 1
    ELSE -1

RECURSIVE SegScanUp(_, _)
\* while sequence_ids[t] != 1: t += 1 ; Len(seq) stands for IndexError.
SegScanUp(seq, t) ==
    IF t >= Len(seq) THEN Len(seq)
    ELSE IF At(seq, t) # 1 THEN SegScanUp(seq, t + 1) ELSE t

RECURSIVE SegScanDown(_, _)
\* while sequence_ids[t] != 1: t -= 1 ; -Len(seq) - 1 stands for IndexError.
SegScanDown(seq, t) ==
    IF ~InRange(seq, t) THEN -Len(seq) - 1
    ELSE IF At(seq, t) # 1 THEN SegScanDown(seq, t - 1) ELSE t

RECURSIVE StartScanStrict(_, _, _)
\* Mutant of StartScan: `<` for `<=`.
StartScanStrict(offs, t, start_char) ==
    IF t < Len(offs) /\ At(offs, t)[1] < start_char
    THEN StartScanStrict(offs, t + 1, start_char)
    ELSE t

RECURSIVE StartScan(_, _, _)
\* while t < len(offsets) and offsets[t][0] <= start_char: t += 1
StartScan(offs, t, start_char) ==
    IF t < Len(offs) /\ At(offs, t)[1] <= start_char
    THEN StartScan(offs, t + 1, start_char)
    ELSE t

RECURSIVE EndScan(_, _, _)
\* while offsets[t][1] >= end_char: t -= 1 ; -Len(offs) - 1 stands for IndexError.
EndScan(offs, t, end_char) ==
    IF ~InRange(offs, t) THEN -Len(offs) - 1
    ELSE IF At(offs, t)[2] >= end_char THEN EndScan(offs, t - 1, end_char) ELSE t

\* start_char, end_char of the first answer.
StartChar(ans) == ans.answer_start[1]

EndChar(ans) == StartChar(ans) + Len(ans.text[1])

\* token_start_index after the first scan (lines 91-93).
ContextStart(seq) == SegScanUp(seq, 0)

\* Mutant of ContextEnd: the decrement after the scan is missing.
ContextEndNoDecrement(seq) == SegScanDown(seq, Len(seq) - 1)

\* token_end_index after the second scan and its decrement (lines 96-99).
ContextEnd(seq) == SegScanDown(seq, Len(seq) - 1) - 1

\* Mutant of OutOfSpan: only the start of the answer is tested.
OutOfSpanStartOnly(offs, cs, ce, ans) == ~(At(offs, cs)[1] <= StartChar(ans))

\* not (offsets[token_start_index][0] <= start_char
\*      and offsets[token_end_index][1] >= end_char)
OutOfSpan(offs, cs, ce, ans) ==
    ~(At(offs, cs)[1] <= StartChar(ans) /\ At(offs, ce)[2] >= EndChar(ans))

\* The body of the loop over the windows: what it appends to the two label
\* lists (<<>> for nothing) and the exception that ends it ("none" if none).
LabelWindow(ids, seq, offs, ans) ==
    LET cls_index == ClsIndex(ids)
        cs == ContextStart(seq)
        ce == ContextEnd(seq)
    IN  IF cls_index = -1
        THEN [start |-> <<>>, end |-> <<>>, err |-> "ValueError"]
        ELSE IF Len(ans.answer_start) = 0
        THEN [start |-> <<cls_index>>, end |-> <<cls_index>>, err |-> "none"]
        ELSE IF cs = Len(seq)
        THEN [start |-> <<>>, end |-> <<>>, err |-> "IndexError"]
        ELSE IF ~InRange(offs, ce)
        THEN [start |-> <<>>, end |-> <<>>, err |-> "IndexError"]
        ELSE IF OutOfSpan(offs, cs, ce, ans)
        THEN [start |-> <<cls_index>>, end |-> <<cls_index>>, err |-> "none"]
        ELSE LET ts == StartScan(offs, cs, StartChar(ans))
                 te == EndScan(offs, ce, EndChar(ans))
             IN  IF te = -Len(offs) - 1
                 THEN [start |-> <<ts - 1>>, end |-> <<>>, err |-> "IndexError"]
                 ELSE [start |-> <<ts - 1>>, end |-> <<te + 1>>, err |-> "none"]

TrainInit ==
    /\ input_ids = <<>>
    /\ sequence_ids = <<>>
    /\ offsets = <<>>
    /\ answers \in AnswerSet
    /\ win_index = -1
    /\ start_positions = <<>>
    /\ end_positions = <<>>

\* One iteration of `for i, offsets in enumerate(offset_mapping):`.
TrainWindow ==
    /\ pc = "train_for"
    /\ win_index + 1 < MaxWindows
    /\ \E w \in Windows :
        LET r == LabelWindow(w.input_ids, w.sequence_ids, w.offsets, answers)
        IN  /\ input_ids' = w.input_ids
            /\ sequence_ids' = w.sequence_ids
            /\ offsets' = w.offsets
            /\ UNCHANGED answers
            /\ win_index' = win_index + 1
            /\ start_positions' = start_positions \o r.start
            /\ end_positions' = end_positions \o r.end
            /\ err' = r.err
            /\ pc' = IF r.err = "none" THEN "train_for" ELSE "error"
    /\ UNCHANGED <<splitVars, taskVars, joinVars, validVars>>

\* `return tokenized_examples`
TrainReturn ==
    /\ pc = "train_for"
    /\ pc' = "train_done"
    /\ UNCHANGED <<splitVars, taskVars, joinVars, trainVars, validVars, err>>

(***************************************************************************)
(* prepare_validation_features (run_squad.py).  The tokenizer output is    *)
(* the same kind of window as for training; overflow_to_sample gives for   *)
(* each window the index of its example.  The model keeps the offsets of   *)
(* the window of the last iteration, before and after masking.             *)
(***************************************************************************)
\* The example identifiers.
Ids == {"id_a", "id_b"}

\* Python None in a masked offset list.
None == <<>>

context_index == 1

\* The list comprehension replacing offset_mapping[i] that keeps every offset.
MaskOffsetsKeepAll(seq, offs) == offs

\* The list comprehension replacing offset_mapping[i].
MaskOffsets(seq, offs) ==
    [k1 \in 1..Len(offs) |->
        IF seq[k1] = context_index /\ (k1 - 1) # Len(seq) - 1
        THEN offs[k1] ELSE None]

\* The identifier of the first example, whatever the window.
ExampleIdFirst(ids, sm, w) == ids[1]

\* examples["id"][sample_mapping[i]]
ExampleIdOf(ids, sm, w) == ids[sm[w + 1] + 1]

\* What the function reads of a tokenized window.
ValidWindows == {[sequence_ids |-> w.sequence_ids, offsets |-> w.offsets] : w \in Windows}

\* The batches: n examples and, for each window, the index of its example.
ValidInit ==
    /\ \E n \in 0..MaxExamples :
         /\ examples_id \in [1..n -> Ids]
         /\ \E f \in 0..MaxFeatures : sample_mapping \in [1..f -> 0..(n - 1)]
    /\ token_type_ids = <<>>
    /\ raw_offsets = <<>>
    /\ offset_mapping = <<>>
    /\ example_id = <<>>
    /\ feat_index = -1

\* One iteration of `for i in range(len(tokenized_examples["input_ids"])):`.
ValidWindow ==
    /\ pc = "valid_for"
    /\ feat_index + 1 < Len(sample_mapping)
    /\ \E w \in ValidWindows :
        /\ token_type_ids' = w.sequence_ids
        /\ raw_offsets' = w.offsets
        /\ example_id' = Append(example_id, ExampleIdOf(examples_id, sample_mapping, feat_index + 1))
        /\ offset_mapping' = MaskOffsets(w.sequence_ids, w.offsets)
    /\ feat_index' = feat_index + 1
    /\ UNCHANGED <<examples_id, sample_mapping, pc, err>>
    /\ UNCHANGED <<splitVars, taskVars, joinVars, trainVars>>

\* `return tokenized_examples`
ValidReturn ==
    /\ pc = "valid_for"
    /\ feat_index + 1 = Len(sample_mapping)
    /\ pc' = "valid_done"
    /\ UNCHANGED <<splitVars, taskVars, joinVars, trainVars, validVars, err>>

(***************************************************************************)
(* Task: what the constructor of a task does after Task.__init__           *)
(* (task.py): _check_task_files over the resource files, then              *)
(* _check_predictor_type, then _get_inference_model.  A subclass may leave *)
(* out either check.  The resource files and the static parameter file are *)
(* given as the constructor finds them on disk; download_file and the      *)
(* conversion are recorded as calls.                                       *)
(***************************************************************************)
\* self.resource_files_names, in iteration order.
ResourceFiles == <<"model_state", "model_config">>

\* The file ids.
FileIds == {ResourceFiles[n] : n \in 1..Len(ResourceFiles)}

FileStates == {"missing", "ok", "stale"}

Devices == {"cpu", "gpu:0"}

Precisions == {"fp32", "fp16"}

\* md5file(path) is called for every file that exists.
Md5CheckedAlways(state, custom) == state # "missing"

\* md5file(path) is called: the file exists and the model is not a custom one.
Md5Checked(state, custom) == state # "missing" /\ ~custom

\* A file is downloaded when it is missing or stale, custom model or not.
NotDownloadedAnyModel(state, custom) == state = "missing" \/ state = "stale"

\* `not downloaded` at the end of the loop body of _check_task_files.
NotDownloaded(state, custom) == state = "missing" \/ (~custom /\ state = "stale")

\* self._param_updated after the loop body for file f.
ParamUpdated(updated, f, state, custom) ==
    updated \/ (~custom /\ state = "stale" /\ f = "model_state")

\* The task objects Task.__init__ leaves, for any keyword arguments and
\* environment.  Fields of self: custom_model, param_updated,
\* infer_precision, predictor_type, dy_model (self._model is not None),
\* input_spec (self._input_spec is not None), predictor ("none" before one
\* is created).  Environment: device (paddle.get_device()), onnx_importable
\* (the imports of the ONNX dependencies succeed), disk (resource file id ->
\* state of the file), static_params (static/inference.pdiparams exists),
\* builds_model and builds_input_spec (the subclass's _construct_model and
\* _construct_input_spec set the field).  Record of the run: file_pos
\* (resource files visited), downloads (file ids passed to download_file),
\* md5_checked (file ids passed to md5file), calls (steps of
\* _get_inference_model, in order).
NewTasks ==
    [custom_model : BOOLEAN,
     param_updated : {FALSE},
     infer_precision : Precisions,
     predictor_type : {"paddle-inference"},
     device : Devices,
     onnx_importable : BOOLEAN,
     disk : [FileIds -> FileStates],
     file_pos : {0},
     downloads : {<<>>},
     md5_checked : {{}},
     static_params : BOOLEAN,
     dy_model : {FALSE},
     input_spec : {FALSE},
     builds_model : BOOLEAN,
     builds_input_spec : BOOLEAN,
     calls : {<<>>},
     predictor : {"none"}]

TaskInit == task \in NewTasks

\* One iteration of `for file_id, file_name in self.resource_files_names.items():`.
CheckTaskFile ==
    /\ pc = "check_files"
    /\ task.file_pos < Len(ResourceFiles)
    /\ LET f == ResourceFiles[task.file_pos + 1]
           st == task.disk[f]
       IN  task' = [task EXCEPT
                !.md5_checked = IF Md5Checked(st, task.custom_model) THEN @ \cup {f} ELSE @,
                !.param_updated = ParamUpdated(@, f, st, task.custom_model),
                !.downloads = IF NotDownloaded(st, task.custom_model) THEN Append(@, f) ELSE @,
                !.file_pos = @ + 1]
    /\ UNCHANGED <<splitVars, joinVars, trainVars, validVars, pc, err>>

\* _check_task_files returns.
CheckTaskFilesReturn ==
    /\ pc = "check_files"
    /\ task.file_pos = Len(ResourceFiles)
    /\ pc' = "check_predictor"
    /\ UNCHANGED <<splitVars, joinVars, trainVars, validVars, taskVars, err>>

\* A constructor that does not call _check_task_files (DocPromptTask.__init__).
SkipCheckTaskFiles ==
    /\ pc = "check_files"
    /\ task.file_pos = 0
    /\ pc' = "check_predictor"
    /\ UNCHANGED <<splitVars, joinVars, trainVars, validVars, taskVars, err>>

\* self._predictor_type after the check, on any device with fp16 requested.
PredictorTypeAnyDevice(type, dev, precision, importable) ==
    IF precision = "fp16" /\ importable THEN "onnxruntime" ELSE type

\* self._predictor_type after _check_predictor_type.
PredictorTypeChecked(type, dev, precision, importable) ==
    IF dev = "cpu" /\ precision = "fp16"
    THEN type
    ELSE IF precision = "fp16" /\ importable THEN "onnxruntime" ELSE type

\* _check_predictor_type
CheckPredictorType ==
    /\ pc = "check_predictor"
    /\ task' = [task EXCEPT !.predictor_type =
                    PredictorTypeChecked(@, task.device, task.infer_precision, task.onnx_importable)]
    /\ pc' = "get_model"
    /\ UNCHANGED <<splitVars, joinVars, trainVars, validVars, err>>

\* A constructor that does not call _check_predictor_type (DocPromptTask.__init__).
SkipCheckPredictorType ==
    /\ pc = "check_predictor"
    /\ pc' = "get_model"
    /\ UNCHANGED <<splitVars, joinVars, trainVars, validVars, taskVars, err>>

\* Conversion only when the static parameter file is missing.
NeedsConversionMissingOnly(exists, updated) == ~exists

\* `not os.path.exists(... + ".pdiparams") or self._param_updated`
NeedsConversion(exists, updated) == ~exists \/ updated

\* _get_inference_model: the test of the static parameter file.
GetInferenceModel ==
    /\ pc = "get_model"
    /\ pc' = IF NeedsConversion(task.static_params, task.param_updated)
             THEN "construct_model" ELSE "prepare"
    /\ UNCHANGED <<splitVars, joinVars, trainVars, validVars, taskVars, err>>

\* self._construct_model(self.model)
ConstructModel ==
    /\ pc = "construct_model"
    /\ task' = [task EXCEPT !.dy_model = (@ \/ task.builds_model),
                            !.calls = Append(@, "construct_model")]
    /\ pc' = "construct_input_spec"
    /\ UNCHANGED <<splitVars, joinVars, trainVars, validVars, err>>

\* self._construct_input_spec()
ConstructInputSpec ==
    /\ pc = "construct_input_spec"
    /\ task' = [task EXCEPT !.input_spec = (@ \/ task.builds_input_spec),
                            !.calls = Append(@, "construct_input_spec")]
    /\ pc' = "convert"
    /\ UNCHANGED <<splitVars, joinVars, trainVars, validVars, err>>

\* self._convert_dygraph_to_static(): the two asserts, then to_static and save.
ConvertDygraphToStatic ==
    /\ pc = "convert"
    /\ task' = [task EXCEPT !.calls = Append(@, "convert")]
    /\ IF task.dy_model /\ task.input_spec
       THEN /\ pc' = "prepare"
            /\ UNCHANGED err
       ELSE /\ pc' = "error"
            /\ err' = "AssertionError"
    /\ UNCHANGED <<splitVars, joinVars, trainVars, validVars>>

\* The preparation _get_inference_model runs, by predictor type, with the
\* static predictor whatever the type.
PrepareStaticAlways(type) == "static"

\* The preparation _get_inference_model runs, by predictor type.
Prepare(type) == IF type = "paddle-inference" THEN "static" ELSE "onnx"

\* _prepare_static_mode() or _prepare_onnx_mode(), which create self.predictor.
PreparePredictor ==
    /\ pc = "prepare"
    /\ task' = [task EXCEPT !.calls = Append(@, Prepare(task.predictor_type)),
                            !.predictor = Prepare(task.predictor_type)]
    /\ pc' = "task_ready"
    /\ UNCHANGED <<splitVars, joinVars, trainVars, validVars, err>>

vars == <<splitVars, joinVars, trainVars, validVars, taskVars, pc, err>>

\* No task object.
NoTask == "none"

TaskIdle == task = NoTask

\* No call of prepare_validation_features.
ValidIdle ==
    /\ examples_id = <<>>
    /\ sample_mapping = <<>>
    /\ token_type_ids = <<>>
    /\ raw_offsets = <<>>
    /\ offset_mapping = <<>>
    /\ example_id = <<>>
    /\ feat_index = -1

\* No call of prepare_train_features.
TrainIdle ==
    /\ input_ids = <<>>
    /\ sequence_ids = <<>>
    /\ offsets = <<>>
    /\ answers = NoAnswers
    /\ win_index = -1
    /\ start_positions = <<>>
    /\ end_positions = <<>>

InitSplit ==
    /\ SplitInit
    /\ JoinInit
    /\ TrainIdle
    /\ ValidIdle
    /\ TaskIdle
    /\ pc = "split_for_text"
    /\ err = "none"

NextSplit ==
    \/ SplitterNextText
    \/ SplitterSen
    \/ SplitterEndText
    \/ SplitterReturn
    \/ JoinerCall
    \/ JoinerEntry
    \/ JoinerReturn

SpecSplit == InitSplit /\ [][NextSplit]_vars

TypeOKSplit ==
    /\ pc \in {"split_for_text", "split_for_sen", "split_done", "join_for", "join_done", "error"}
    /\ cnt_org \in 0..MaxTexts
    /\ Len(short_input_texts) = cnt_short

\* No call of the splitter: its state stays as constructed.
SplitIdle ==
    /\ input_texts = <<>>
    /\ max_text_len = 1
    /\ split_sentence = FALSE
    /\ input_mapping = <<>>
    /\ short_input_texts = <<>>
    /\ cnt_org = 0
    /\ cnt_short = 0
    /\ sens = <<>>
    /\ sen = <<>>
    /\ temp_text_list = <<>>
    /\ temp_text_id = <<>>

InitTrain ==
    /\ SplitIdle
    /\ JoinInit
    /\ TrainInit
    /\ ValidIdle
    /\ TaskIdle
    /\ pc = "train_for"
    /\ err = "none"

NextTrain ==
    \/ TrainWindow
    \/ TrainReturn

SpecTrain == InitTrain /\ [][NextTrain]_vars

TypeOKTrain ==
    /\ pc \in {"train_for", "train_done", "error"}
    /\ win_index < MaxWindows
    /\ Len(end_positions) <= win_index + 1
    /\ Len(input_ids) = Len(sequence_ids)
    /\ Len(input_ids) = Len(offsets)

InitValid ==
    /\ SplitIdle
    /\ JoinInit
    /\ TrainIdle
    /\ ValidInit
    /\ TaskIdle
    /\ pc = "valid_for"
    /\ err = "none"

NextValid ==
    \/ ValidWindow
    \/ ValidReturn

SpecValid == InitValid /\ [][NextValid]_vars

TypeOKValid ==
    /\ pc \in {"valid_for", "valid_done"}
    /\ feat_index < Len(sample_mapping)
    /\ Len(token_type_ids) = Len(raw_offsets)

(***************************************************************************)
(* _auto_joiner on the results of a model run over the chunks: per chunk a *)
(* list of items or a dict of a str field and a list field, every chunk    *)
(* with the same fields.  The mapping is one the splitter builds: entry k   *)
(* lists a run of consecutive chunk indices, the runs following each other. *)
(***************************************************************************)
\* The items of list values and the characters of str values.
Items == {"a", "b"}

Vals == SeqsUpTo(Items, MaxItems)

\* The fields a dict result may have, in insertion order, and their types.
FieldSeqs == {<<>>, <<"text">>, <<"items">>, <<"text", "items">>}

FieldType(f) == IF f = "text" THEN "str" ELSE "list"

\* The dict results with the fields fs.
DictsOf(fs) ==
    {DictObj([i \in 1..Len(fs) |-> [k |-> fs[i], v |-> [type |-> FieldType(fs[i]), val |-> vals[i]]]]) :
        vals \in [1..Len(fs) -> Vals]}

\* The lists of n chunk results.
ResultLists(n) ==
    [1..n -> {ListObj(x) : x \in Vals}] \cup UNION {[1..n -> DictsOf(fs)] : fs \in FieldSeqs}

\* For each of n chunks the index of its input: 0 first, then the same or the next.
Owners(n) ==
    {o \in [1..n -> 0..(n - 1)] :
        /\ n > 0 => o[1] = 0
        /\ \A j \in 1..(n - 1) : o[j + 1] \in {o[j], o[j] + 1}}

\* The chunk indices owned by input k, in increasing order.
RunOf(o, k) ==
    LET js == {j \in 1..Len(o) : o[j] = k}
        lo == CHOOSE j \in js : \A j2 \in js : j <= j2
    IN  [i \in 1..Cardinality(js) |-> lo + i - 2]

\* The mapping the splitter builds for the owners o.
MappingOf(o) ==
    [e \in 1..(IF Len(o) = 0 THEN 0 ELSE o[Len(o)] + 1) |-> [k |-> e - 1, vs |-> RunOf(o, e - 1)]]

\* The arguments of a call _auto_joiner(short_results, input_mapping, is_dict).
JoinArgs ==
    /\ \E n \in 0..MaxChunks :
         /\ short_results \in ResultLists(n)
         /\ input_mapping \in {MappingOf(o) : o \in Owners(n)}
    /\ results_at_call = short_results
    /\ is_dict \in BOOLEAN
    /\ concat_results = <<>>
    /\ join_pos = 0

InitJoin ==
    /\ input_texts = <<>>
    /\ max_text_len = 1
    /\ split_sentence = FALSE
    /\ short_input_texts = <<>>
    /\ cnt_org = 0
    /\ cnt_short = 0
    /\ sens = <<>>
    /\ sen = <<>>
    /\ temp_text_list = <<>>
    /\ temp_text_id = <<>>
    /\ JoinArgs
    /\ TrainIdle
    /\ ValidIdle
    /\ TaskIdle
    /\ pc = "join_for"
    /\ err = "none"

NextJoin ==
    \/ JoinerEntry
    \/ JoinerReturn

SpecJoin == InitJoin /\ [][NextJoin]_vars

TypeOKJoin ==
    /\ pc \in {"join_for", "join_done", "error"}
    /\ join_pos <= Len(input_mapping)
    /\ Len(concat_results) = join_pos
    /\ Len(short_results) = Len(results_at_call)

InitTask ==
    /\ SplitIdle
    /\ JoinInit
    /\ TrainIdle
    /\ ValidIdle
    /\ TaskInit
    /\ pc = "check_files"
    /\ err = "none"

NextTask ==
    \/ CheckTaskFile
    \/ CheckTaskFilesReturn
    \/ SkipCheckTaskFiles
    \/ CheckPredictorType
    \/ SkipCheckPredictorType
    \/ GetInferenceModel
    \/ ConstructModel
    \/ ConstructInputSpec
    \/ ConvertDygraphToStatic
    \/ PreparePredictor

SpecTask == InitTask /\ [][NextTask]_vars

TypeOKTask ==
    /\ pc \in {"check_files", "check_predictor", "get_model", "construct_model",
               "construct_input_spec", "convert", "prepare", "task_ready", "error"}
    /\ task.file_pos \in 0..Len(ResourceFiles)
    /\ task.predictor_type \in {"paddle-inference", "onnxruntime"}
    /\ task.predictor \in {"none", "static", "onnx"}

(***************************************************************************)
(* Properties of the splitter and the joiner (under SpecSplit).            *)
(***************************************************************************)
\* _auto_splitter has returned.
SplitReturned == pc \in {"split_done", "join_for", "join_done", "error"}

\* The mapping entry of original input k (0-based).
EntryOf(k) == input_mapping[Get(input_mapping, k)].vs

\* The chunks of a list of chunk indices, concatenated in the listed order.
ConcatChunks(vs) == Flatten([j \in 1..Len(vs) |-> short_input_texts[vs[j] + 1]])

\* The chunk results handed to the joiner are the chunks themselves.
ResultsAreChunks ==
    /\ Len(short_results) = Len(short_input_texts)
    /\ \A j \in 1..Len(short_results) : short_results[j] = StrObj(short_input_texts[j])

\* C1: round trip. Joining the chunks of the splitter with its mapping
\* (is_dict = False) returns without error a list equal to the input texts.
C1_RoundTrip ==
    (pc \in {"join_done", "error"} /\ ~is_dict /\ ResultsAreChunks)
        => /\ pc = "join_done"
           /\ Len(JoinerResults) = Len(input_texts)
           /\ \A t \in 1..Len(input_texts) : JoinerResults[t].val = input_texts[t]

\* C2: for every input text, the chunks listed by its mapping entry,
\* concatenated in the listed order, are the text.
C2_ChunksRebuildText ==
    SplitReturned =>
        \A t \in 1..Len(input_texts) :
            /\ (t - 1) \in Keys(input_mapping)
            /\ ConcatChunks(EntryOf(t - 1)) = input_texts[t]

\* C2 witness: two texts were split, one of them into several chunks that
\* are not all equal.
C2_Witness ==
    /\ pc = "split_done"
    /\ Len(input_texts) = 2
    /\ \E t \in 1..2 :
        /\ Len(EntryOf(t - 1)) >= 2
        /\ short_input_texts[EntryOf(t - 1)[1] + 1] # short_input_texts[EntryOf(t - 1)[2] + 1]

\* All chunk indices of the mapping, in entry order.
AllChunkIds == Flatten([e \in 1..Len(input_mapping) |-> input_mapping[e].vs])

\* C3: the mapping partitions the chunk indices. Read entry after entry, the
\* index lists are 0, 1, ..., len(short_input_texts) - 1: every chunk index
\* once, each list increasing and consecutive, successive entries covering
\* successive ranges; the entries are those of the inputs, in input order.
C3_MappingPartitionsChunks ==
    /\ AllChunkIds = Range(Len(short_input_texts))
    /\ \A e \in 1..Len(input_mapping) : input_mapping[e].k = e - 1
    /\ SplitReturned => Len(input_mapping) = Len(input_texts)

\* C3 witness: a 1-chunk input followed by a 3-chunk input.
C3_Witness ==
    /\ pc = "split_done"
    /\ input_mapping = <<[k |-> 0, vs |-> <<0>>], [k |-> 1, vs |-> <<1, 2, 3>>]>>

\* A text of at most max_text_len characters gave one chunk, the text itself.
OneChunk(t) ==
    /\ (t - 1) \in Keys(input_mapping)
    /\ Len(EntryOf(t - 1)) = 1
    /\ short_input_texts[EntryOf(t - 1)[1] + 1] = input_texts[t]

\* C4 as claimed: splitting a text of length at most max_len yields exactly
\* one chunk, equal to the text, and a mapping entry with that chunk index only.
C4_ShortTextOneChunk ==
    SplitReturned =>
        \A t \in 1..Len(input_texts) :
            Len(input_texts[t]) <= max_text_len => OneChunk(t)

\* C4 amended: with split_sentence = False, splitting a text of length at
\* most max_len yields exactly one chunk, equal to the text, and a mapping
\* entry with that chunk index only.
C4_ShortTextOneChunkNoSentenceSplit ==
    (SplitReturned /\ ~split_sentence) =>
        \A t \in 1..Len(input_texts) :
            Len(input_texts[t]) <= max_text_len => OneChunk(t)

\* C4 witness: without sentence split, a text of exactly max_text_len
\* characters that holds a sentence terminator followed by a character.
C4_Witness ==
    /\ pc = "split_done"
    /\ ~split_sentence
    /\ \E t \in 1..Len(input_texts) :
        /\ Len(input_texts[t]) = max_text_len
        /\ Len(cut_chinese_sent(input_texts[t])) > 1
        /\ OneChunk(t)

\* The last unit was longer than max_text_len and has just been sliced.
UnitSliced == pc = "split_for_sen" /\ Len(sen) > max_text_len

\* C5: every chunk has at most max_len characters; a unit longer than
\* max_len is cut into ceil(len / max_len) consecutive slices, all of max_len
\* characters except possibly the last, which is not empty, and as many
\* chunk indices are recorded for the unit as slices are emitted.
C5_SlicesOfLongUnit ==
    /\ \A j \in 1..Len(short_input_texts) : Len(short_input_texts[j]) <= max_text_len
    /\ UnitSliced =>
        LET n == Len(temp_text_list)
        IN  /\ n * max_text_len >= Len(sen)
            /\ (n - 1) * max_text_len < Len(sen)
            /\ \A j \in 1..(n - 1) : Len(temp_text_list[j]) = max_text_len
            /\ Len(temp_text_list[n]) >= 1
            /\ Flatten(temp_text_list) = sen
            /\ Len(temp_text_id) = n
            /\ Len(short_input_texts) >= n
            /\ SubSeq(short_input_texts, Len(short_input_texts) - n + 1,
                      Len(short_input_texts)) = temp_text_list
            /\ temp_text_id = [j \in 1..n |-> Len(short_input_texts) - n + (j - 1)]

\* C5 witness: a unit cut into slices the last of which is shorter.
C5_Witness ==
    /\ UnitSliced
    /\ Len(temp_text_list) >= 2
    /\ Len(temp_text_list[Len(temp_text_list)]) < max_text_len

(***************************************************************************)
(* Properties of prepare_train_features (under SpecTrain).                 *)
(***************************************************************************)
SetMin(S) == CHOOSE x \in S : \A y \in S : x <= y

SetMax(S) == CHOOSE x \in S : \A y \in S : x >= y

\* The loop has entered a window: the window variables hold it.
WindowSeen == win_index >= 0

\* The window holds the no-answer marker token.
HasMarker == \E k \in 1..Len(input_ids) : input_ids[k] = cls_token_id

\* The 0-based index of the marker token in the window's input ids.
MarkerIndex == SetMin({k \in 0..(Len(input_ids) - 1) : input_ids[k + 1] = cls_token_id})

HasAnswer == Len(answers.answer_start) > 0

AnsStart == answers.answer_start[1]

AnsEnd == answers.answer_start[1] + Len(answers.text[1])

\* The 0-based indices whose segment indicator is 1.
Seg1Ids == {k \in 0..(Len(sequence_ids) - 1) : sequence_ids[k + 1] = 1}

context_start == SetMin(Seg1Ids)

context_end == SetMax(Seg1Ids) - 1

\* Both labels of the last window were emitted.
Labeled ==
    /\ WindowSeen
    /\ err = "none"
    /\ Len(start_positions) = win_index + 1
    /\ Len(end_positions) = win_index + 1

LastStart == start_positions[Len(start_positions)]

LastEnd == end_positions[Len(end_positions)]

\* The answer lies within the offsets of context_start .. context_end.
Covered ==
    /\ offsets[context_start + 1][1] <= AnsStart
    /\ offsets[context_end + 1][2] >= AnsEnd

\* C6: a window of an example without answer is labelled with the index of
\* the marker token, at both ends, whatever its segment indicators and offsets.
C6_NoAnswerLabelsMarker ==
    (WindowSeen /\ HasMarker /\ ~HasAnswer)
        => /\ Labeled
           /\ LastStart = MarkerIndex
           /\ LastEnd = MarkerIndex

\* C6 witness: such a window without any token of segment 1, labelled.
C6_Witness ==
    /\ Labeled
    /\ HasMarker
    /\ ~HasAnswer
    /\ Seg1Ids = {}
    /\ LastStart = 0

\* C7: when the answer starts before the start offset of the token at
\* context_start or ends after the end offset of the token at context_end,
\* both labels are the index of the marker token.
C7_OutOfSpanLabelsMarker ==
    (WindowSeen /\ HasMarker /\ HasAnswer /\ Seg1Ids # {} /\ ~Covered)
        => /\ Labeled
           /\ LastStart = MarkerIndex
           /\ LastEnd = MarkerIndex

\* C7 witness: the answer starts inside the window and ends after it.
C7_Witness ==
    /\ Labeled
    /\ HasMarker
    /\ HasAnswer
    /\ Seg1Ids # {}
    /\ context_end > context_start
    /\ offsets[context_start + 1][1] <= AnsStart
    /\ AnsStart < offsets[context_end + 1][2]
    /\ offsets[context_end + 1][2] < AnsEnd

\* The indices at or after context_start whose start offset is greater than
\* the start char of the answer.
StartsAfter == {k \in context_start..(Len(offsets) - 1) : offsets[k + 1][1] > AnsStart}

\* The indices up to context_end whose end offset is less than the end char.
EndsBefore == {k \in 0..context_end : offsets[k + 1][2] < AnsEnd}

\* The labels of the last window come from the two scans.
Scanned == Labeled /\ HasMarker /\ HasAnswer /\ Seg1Ids # {} /\ Covered

\* C8: when the window covers the answer, the start label is one less than
\* the first index at or after context_start whose start offset is greater
\* than the start char (the last index if there is none), and the end label
\* is one more than the first index, going down from context_end, whose end
\* offset is less than the end char.
C8_ScanLabels ==
    Scanned =>
        /\ LastStart = (IF StartsAfter = {} THEN Len(offsets) ELSE SetMin(StartsAfter)) - 1
        /\ EndsBefore # {}
        /\ LastEnd = SetMax(EndsBefore) + 1

\* C8 witness: both scans moved and stopped inside the context.
C8_Witness ==
    /\ Scanned
    /\ StartsAfter # {}
    /\ LastStart > context_start
    /\ LastEnd < context_end
    /\ LastEnd > context_start

\* The offsets of the tokens context_start .. context_end are strictly
\* increasing and do not overlap.
ContextOffsetsIncreasing ==
    /\ \A k \in context_start..context_end : offsets[k + 1][1] < offsets[k + 1][2]
    /\ \A k \in context_start..(context_end - 1) : offsets[k + 1][2] <= offsets[k + 2][1]

\* C9: when the answer is exactly the offset pair of a token t between
\* context_start and context_end, both labels are t.
C9_SingleTokenAnswer ==
    (WindowSeen /\ HasMarker /\ HasAnswer /\ Seg1Ids # {} /\ ContextOffsetsIncreasing)
        => \A t \in context_start..context_end :
            offsets[t + 1] = <<AnsStart, AnsEnd>>
                => Labeled /\ LastStart = t /\ LastEnd = t

\* C10: a window without the marker token ends the call with an error and
\* no label is emitted for it, with or without answer.
C10_NoMarkerFails ==
    (WindowSeen /\ ~HasMarker)
        => /\ pc = "error"
           /\ err = "ValueError"
           /\ Len(start_positions) = win_index
           /\ Len(end_positions) = win_index

\* C10 witness: the call failed on a window without marker of an example
\* that has an answer the window covers.
C10_Witness ==
    /\ pc = "error"
    /\ WindowSeen
    /\ ~HasMarker
    /\ HasAnswer
    /\ Seg1Ids # {}
    /\ Covered

\* C11: a window without any token of segment 1, of an example that has an
\* answer, is labelled with the marker index at both ends and raises no error.
C11_NoContextFallsBack ==
    (WindowSeen /\ HasMarker /\ HasAnswer /\ Seg1Ids = {})
        => /\ Labeled
           /\ LastStart = MarkerIndex
           /\ LastEnd = MarkerIndex

\* C12: for a window with the marker token and at least one token of
\* segment 1, whatever the answer, the call raises no exception and the two
\* scans stop at an index of 0 .. len(offsets) - 1.
C12_ScansStayInBounds ==
    (WindowSeen /\ HasMarker /\ Seg1Ids # {})
        => /\ Labeled
           /\ (HasAnswer /\ Covered) =>
                /\ LastStart >= 0
                /\ LastStart <= Len(offsets) - 1
                /\ LastEnd >= 1
                /\ LastEnd <= Len(offsets)

\* The answer ends within the token at the largest index of segment 1 and
\* after the token at context_end; its start is covered.
EndOnlyInLastSeg1Token ==
    /\ offsets[context_start + 1][1] <= AnsStart
    /\ offsets[context_end + 1][2] < AnsEnd
    /\ offsets[SetMax(Seg1Ids) + 1][2] >= AnsEnd

\* C18: context_start is the smallest index of segment 1 and context_end is
\* one less than the largest; so an answer whose end char only the token at
\* the largest index of segment 1 covers is labelled with the marker index.
C18_ContextBounds ==
    (WindowSeen /\ HasMarker /\ HasAnswer /\ Seg1Ids # {})
        => /\ ContextStart(sequence_ids) = SetMin(Seg1Ids)
           /\ ContextEnd(sequence_ids) = SetMax(Seg1Ids) - 1
           /\ EndOnlyInLastSeg1Token =>
                /\ Labeled
                /\ LastStart = MarkerIndex
                /\ LastEnd = MarkerIndex

\* C18 witness: such an answer, in a window whose context has two tokens
\* and no closing separator.
C18_Witness ==
    /\ Labeled
    /\ HasMarker
    /\ HasAnswer
    /\ Seg1Ids # {}
    /\ context_end > context_start
    /\ EndOnlyInLastSeg1Token
    /\ LastStart = MarkerIndex

\* C20: labels that come from the scans satisfy
\* context_start <= start <= end <= context_end, when the answer is not
\* empty and the context tokens' offsets increase without overlap.
C20_LabelsWithinContext ==
    (Scanned /\ AnsStart < AnsEnd /\ ContextOffsetsIncreasing)
        => /\ context_start <= LastStart
           /\ LastStart <= LastEnd
           /\ LastEnd <= context_end

(***************************************************************************)
(* Properties of prepare_validation_features (under SpecValid).            *)
(***************************************************************************)
\* The loop body has run for at least one window.
FeatureSeen == feat_index >= 0

\* The 0-based token positions of the last window.
Positions == 0..(Len(raw_offsets) - 1)

\* Position k of the last window is a context position that is not the last one.
KeptPosition(k) == token_type_ids[k + 1] = context_index /\ k # Len(token_type_ids) - 1

\* C13: the masked offsets of a window have the length of the tokenized
\* offsets; position k keeps its offset pair if its segment indicator is 1
\* and k is not the last position, and holds None otherwise.
C13_MaskedOffsets ==
    FeatureSeen =>
        /\ Len(offset_mapping) = Len(raw_offsets)
        /\ \A k \in Positions :
              offset_mapping[k + 1] = IF KeptPosition(k) THEN raw_offsets[k + 1] ELSE None

\* A window ending in a segment-1 token, with a kept context token before it.
C13_Witness ==
    /\ FeatureSeen
    /\ Len(raw_offsets) > 0
    /\ token_type_ids[Len(token_type_ids)] = 1
    /\ offset_mapping[Len(offset_mapping)] = None
    /\ \E k \in Positions : KeptPosition(k) /\ offset_mapping[k + 1] = raw_offsets[k + 1]
    /\ \E k \in Positions : token_type_ids[k + 1] = 0 /\ raw_offsets[k + 1] # None

\* C14: example_id has one entry per window entered, in window order; the
\* entry of window w is the id of the example at index sample_mapping[w],
\* so windows of one example carry the same id; on return there is one
\* entry per window of the batch.
C14_ExampleIds ==
    /\ Len(example_id) = feat_index + 1
    /\ \A w \in 0..feat_index :
          example_id[w + 1] = examples_id[sample_mapping[w + 1] + 1]
    /\ \A w1, w2 \in 0..feat_index :
          sample_mapping[w1 + 1] = sample_mapping[w2 + 1] => example_id[w1 + 1] = example_id[w2 + 1]
    /\ pc = "valid_done" => Len(example_id) = Len(sample_mapping)

\* A returned batch of two examples with different ids, the second of which
\* gave two windows.
C14_Witness ==
    /\ pc = "valid_done"
    /\ Len(examples_id) = 2
    /\ examples_id[1] # examples_id[2]
    /\ Len(sample_mapping) = 2
    /\ sample_mapping[1] = 1
    /\ sample_mapping[2] = 1
    /\ example_id = <<examples_id[2], examples_id[2]>>

(***************************************************************************)
(* Properties of _auto_joiner on model results (under SpecJoin).           *)
(***************************************************************************)
\* The call has returned or raised.
JoinEnded == pc \in {"join_done", "error"}

\* Every chunk result passed to the call is a dict.
DictResults == \A j \in 1..Len(results_at_call) : results_at_call[j].type = "dict"

\* The values passed for the i-th field in the chunks vs, concatenated in
\* the listed order.
FieldValues(vs, i) == Flatten([j \in 1..Len(vs) |-> results_at_call[vs[j] + 1].val[i].v.val])

\* The i-th field of the joined result of mapping entry e is the i-th field
\* of its chunks, by name and type, with the concatenated value.
FieldJoined(e, i) ==
    LET vs == input_mapping[e].vs
        first == results_at_call[vs[1] + 1].val[i]
        joined == JoinerResults[e].val[i]
    IN  /\ joined.k = first.k
        /\ joined.v.type = first.v.type
        /\ joined.v.val = FieldValues(vs, i)

\* C15: with is_dict = True and dict chunk results the joiner returns, for
\* every mapping entry, a dict with the fields of its chunks, each field
\* holding the concatenation in mapping order of that field's values over
\* the chunks of the entry (str values and list values alike).
C15_FieldsConcatenated ==
    (JoinEnded /\ is_dict /\ DictResults)
        => /\ pc = "join_done"
           /\ Len(JoinerResults) = Len(input_mapping)
           /\ \A e \in 1..Len(input_mapping) :
                 LET n == Len(results_at_call[input_mapping[e].vs[1] + 1].val)
                 IN  /\ JoinerResults[e].type = "dict"
                     /\ Len(JoinerResults[e].val) = n
                     /\ \A i \in 1..n : FieldJoined(e, i)

\* Two chunks {"text": "a", "items": ["b"]} and {"text": "b", "items": ["a"]}
\* of one input joined to {"text": "ab", "items": ["b", "a"]}.
C15_Witness ==
    /\ pc = "join_done"
    /\ is_dict
    /\ input_mapping = <<[k |-> 0, vs |-> <<0, 1>>]>>
    /\ results_at_call =
         <<DictObj(<<[k |-> "text", v |-> StrObj(<<"a">>)], [k |-> "items", v |-> ListObj(<<"b">>)]>>),
           DictObj(<<[k |-> "text", v |-> StrObj(<<"b">>)], [k |-> "items", v |-> ListObj(<<"a">>)]>>)>>
    /\ JoinerResults =
         <<DictObj(<<[k |-> "text", v |-> StrObj(<<"a", "b">>)],
                     [k |-> "items", v |-> ListObj(<<"b", "a">>)]>>)>>

\* A chunk result is not of the kind is_dict declares.
Mismatch ==
    \E j \in 1..Len(results_at_call) :
        \/ results_at_call[j].type = "dict" /\ ~is_dict
        \/ results_at_call[j].type = "list" /\ is_dict

\* C16: a call with a chunk result that is not of the declared kind (a dict
\* with is_dict = False, a list with is_dict = True) ends with the
\* "Invalid element type" ValueError.
C16_MismatchRaises ==
    (JoinEnded /\ Mismatch) => (pc = "error" /\ err = "ValueError")

\* C17: the call leaves its arguments as they were: when it has ended,
\* every element of short_results has the content it had at the call.
C17_ArgumentsUntouched ==
    JoinEnded => short_results = results_at_call

(***************************************************************************)
(* The joiner on the output of the splitter (under SpecSplit).             *)
(***************************************************************************)
\* C19: called with is_dict = False on chunk results of the splitter's
\* chunks (a chunk's result holds the chunk's characters), the joiner
\* returns one result per mapping entry, in entry order, the result of
\* entry e being the chunk results at the indices the entry lists, in the
\* listed order; for n texts split with split_sentence = False it returns
\* n results.
C19_OneResultPerEntry ==
    (JoinEnded /\ ~is_dict)
        => /\ pc = "join_done"
           /\ Len(JoinerResults) = Len(input_mapping)
           /\ \A e \in 1..Len(input_mapping) :
                 JoinerResults[e].val = ConcatChunks(input_mapping[e].vs)
           /\ ~split_sentence => Len(JoinerResults) = Len(input_texts)

(***************************************************************************)
(* Properties of the construction of a task (under SpecTask).              *)
(***************************************************************************)
\* The loop of _check_task_files has visited file f.
Visited(f) == \E n \in 1..task.file_pos : ResourceFiles[n] = f

\* download_file was called for file f.
Downloaded(f) == \E n \in 1..Len(task.downloads) : task.downloads[n] = f

\* C21: a visited resource file was downloaded exactly when it was missing,
\* or it existed, the model is not a custom one and its md5 differed (and
\* then once); an existing file of a custom model is neither checksummed nor
\* downloaded; _param_updated is true exactly when the model is not a custom
\* one and the visited model_state file had a differing md5, so it is never
\* set for another file and never reset.
C21_DownloadsAndParamUpdated ==
    /\ \A f \in FileIds :
         /\ Downloaded(f) <=>
              /\ Visited(f)
              /\ \/ task.disk[f] = "missing"
                 \/ task.disk[f] # "missing" /\ ~task.custom_model /\ task.disk[f] = "stale"
         /\ (task.custom_model /\ task.disk[f] # "missing") => (f \notin task.md5_checked /\ ~Downloaded(f))
         /\ f \in task.md5_checked => Visited(f)
    /\ \A n1, n2 \in 1..Len(task.downloads) : task.downloads[n1] = task.downloads[n2] => n1 = n2
    /\ task.param_updated <=>
         (Visited("model_state") /\ ~task.custom_model /\ task.disk["model_state"] = "stale")

\* A model that is not custom: the stale model_state and the missing
\* model_config were downloaded, the former was checksummed.
C21_Witness ==
    /\ pc = "check_predictor"
    /\ ~task.custom_model
    /\ task.disk = [f \in FileIds |-> IF f = "model_state" THEN "stale" ELSE "missing"]
    /\ task.downloads = <<"model_state", "model_config">>
    /\ task.md5_checked = {"model_state"}
    /\ task.param_updated

\* s is an initial part of t.
IsPrefix(s, t) == Len(s) <= Len(t) /\ \A n \in 1..Len(s) : s[n] = t[n]

\* The steps of a conversion, in order.
ConversionSteps == <<"construct_model", "construct_input_spec", "convert">>

\* The static parameter file is missing or _param_updated is true.
MustConvert == ~task.static_params \/ task.param_updated

\* _get_inference_model has been entered.
InGetInferenceModel ==
    pc \in {"construct_model", "construct_input_spec", "convert", "prepare", "task_ready", "error"}

\* C22: once _get_inference_model runs, its steps are construct-model,
\* construct-input-spec, conversion and then the creation of the predictor
\* when the static parameter file is missing or _param_updated is true, and
\* the creation of the predictor alone otherwise; a conversion with the
\* dygraph model or the input spec unset ends in an AssertionError without
\* predictor; a predictor exists only when the call has returned.
C22_ConversionBeforePredictor ==
    /\ InGetInferenceModel =>
         IF MustConvert
         THEN /\ \E p \in {"static", "onnx"} : IsPrefix(task.calls, ConversionSteps \o <<p>>)
              /\ pc \in {"prepare", "task_ready"} =>
                    (IsPrefix(ConversionSteps, task.calls) /\ task.dy_model /\ task.input_spec)
              /\ pc = "error" =>
                    /\ task.calls = ConversionSteps
                    /\ err = "AssertionError"
                    /\ ~(task.dy_model /\ task.input_spec)
              /\ (pc = "convert" /\ ~(task.dy_model /\ task.input_spec)) => task.predictor = "none"
         ELSE /\ pc \in {"prepare", "task_ready"}
              /\ \E p \in {"static", "onnx"} : IsPrefix(task.calls, <<p>>)
    /\ task.predictor # "none" <=> pc = "task_ready"
    /\ pc = "task_ready" => task.calls[Len(task.calls)] = task.predictor

\* A static parameter file exists, but the checksum of model_state differed:
\* the model was converted again before the predictor was created.
C22_Witness ==
    /\ pc = "task_ready"
    /\ task.static_params
    /\ task.param_updated
    /\ task.calls = ConversionSteps \o <<"static">>
    /\ task.predictor = "static"

\* The number of preparations among the steps taken.
Preparations == Cardinality({n \in 1..Len(task.calls) : task.calls[n] \in {"static", "onnx"}})

\* C23: the predictor type is 'onnxruntime' only on a device other than cpu,
\* with precision 'fp16' and importable ONNX dependencies, and is
\* 'paddle-inference' otherwise; _get_inference_model prepares the ONNX
\* session when the type is 'onnxruntime' and the static predictor
\* otherwise, one of them and once.
C23_PredictorType ==
    /\ task.predictor_type = "onnxruntime" =>
         (task.device # "cpu" /\ task.infer_precision = "fp16" /\ task.onnx_importable)
    /\ task.predictor_type # "onnxruntime" => task.predictor_type = "paddle-inference"
    /\ pc = "task_ready" =>
         /\ task.predictor = (IF task.predictor_type = "onnxruntime" THEN "onnx" ELSE "static")
         /\ Preparations = 1
    /\ pc # "task_ready" => Preparations = 0

\* On a gpu with fp16 and the dependencies installed the ONNX session was
\* prepared.
C23_Witness ==
    /\ pc = "task_ready"
    /\ task.device # "cpu"
    /\ task.infer_precision = "fp16"
    /\ task.onnx_importable
    /\ task.predictor_type = "onnxruntime"
    /\ task.predictor = "onnx"

====
